---------------------------- MODULE Spec2Model ----------------------------
(***************************************************************************)
(* xdir: standard directory locations (src/src/lib.rs).                    *)
(*                                                                         *)
(* Seven functions, each returning Option<PathBuf>:                        *)
(*   home                      re-export of home::home_dir                 *)
(*   bin cache config data state   the path! macro: an environment         *)
(*                             variable, else home() joined with a subpath *)
(*   runtime                   the environment variable alone              *)
(*                                                                         *)
(* Strings and paths are sequences of one-character strings; the token     *)
(* BadByte stands for a byte that is not valid UTF-8.  The model is for a  *)
(* Unix target: the path separator is "/".                                 *)
(***************************************************************************)
EXTENDS Naturals, Sequences, FiniteSets

(***************************************************************************)
(* Bounds.                                                                 *)
(***************************************************************************)
\* at most this many of the six variables are present in the environment
MaxSet == 1

(***************************************************************************)
(* The inputs: environment variables and the home directory provider.      *)
(***************************************************************************)
Threads == {"t1", "t2"}

VarNames == {"XDG_BIN_HOME", "XDG_CACHE_HOME", "XDG_CONFIG_HOME",
             "XDG_DATA_HOME", "XDG_RUNTIME_DIR", "XDG_STATE_HOME"}

BadByte == "0xFF"

\* a variable of the process environment: absent, or present with bytes
Unset == [set |-> FALSE, bytes |-> << >>]
Present(b) == [set |-> TRUE, bytes |-> b]

\* the values a variable is given: empty, whitespace only, an absolute
\* path, and bytes that are not valid Unicode
EnvBytes == { << >>, <<" ">>, <<"/", "t">>, <<"/", BadByte>> }
EnvValues == {Unset} \cup {Present(b) : b \in EnvBytes}

EnvSet == {e \in [VarNames -> EnvValues] :
              Cardinality({v \in VarNames : e[v].set}) <= MaxSet}

\* Option<PathBuf>
None == [some |-> FALSE, path |-> << >>]
Some(p) == [some |-> TRUE, path |-> p]

\* the answers of the home directory provider
HomeAnswers == {None, Some(<<"/", "h">>), Some(<<"/">>)}

(***************************************************************************)
(* std helpers, as the code uses them.                                     *)
(***************************************************************************)
\* Result<String, VarError>
Ok(s) == [ok |-> TRUE, s |-> s, err |-> "none"]
Err(x) == [ok |-> FALSE, s |-> << >>, err |-> x]

\* variant: a lossy conversion, each invalid byte replaced
env_var_lossy(e, name) ==
    IF ~e[name].set THEN Err("NotPresent")
    ELSE Ok([i \in 1..Len(e[name].bytes) |->
                IF e[name].bytes[i] = BadByte THEN "?" ELSE e[name].bytes[i]])

\* env::var(name): Err(NotPresent) when absent, Err(NotUnicode) when the
\* value is not valid Unicode, else Ok(value)
env_var(e, name) ==
    IF ~e[name].set THEN Err("NotPresent")
    ELSE IF \E i \in 1..Len(e[name].bytes) : e[name].bytes[i] = BadByte
         THEN Err("NotUnicode")
         ELSE Ok(e[name].bytes)

\* variant: the value is trimmed before the emptiness test
filter_trimmed(s) == \E i \in 1..Len(s) : s[i] # " "

\* variant: no emptiness test
filter_any(s) == TRUE

\* |path| !path.is_empty()
filter(s) == Len(s) # 0

\* PathBuf::from(String): the same bytes
PathBuf_from(s) == s

\* variant: the subpath is appended without a separator
join_concat(p, dir) == p \o dir

\* Path::join(dir): an absolute dir replaces the path, otherwise a
\* separator is added unless the path is empty or already ends in one
join(p, dir) ==
    IF Len(dir) > 0 /\ dir[1] = "/" THEN dir
    ELSE IF Len(p) > 0 /\ p[Len(p)] # "/" THEN p \o <<"/">> \o dir
    ELSE p \o dir

\* env::var($var).into_iter().filter(..).map(PathBuf::from).next()
path_next(e, var) ==
    LET r == env_var(e, var)
    IN  IF r.ok /\ filter(r.s) THEN Some(PathBuf_from(r.s)) ELSE None

\* variant: an unresolved home becomes the empty path
or_else_default(h, dir) ==
    Some(join(IF h.some THEN h.path ELSE << >>, dir))

\* || home().map(|path| path.join($dir))
or_else(h, dir) ==
    IF h.some THEN Some(join(h.path, dir)) ELSE None

\* path!($var, $dir) run to completion over environment e and home answer h
path(f, e, h) ==
    LET first == path_next(e, f.var)
    IN  IF first.some THEN first ELSE or_else(h, f.dir)

(***************************************************************************)
(* The functions: the arguments each gives to path!.                       *)
(***************************************************************************)
bin == [var |-> "XDG_BIN_HOME",
        dir |-> <<".", "l", "o", "c", "a", "l", "/", "b", "i", "n">>]

\* variant: cache reads the variable of config
cache_reads_config == [var |-> "XDG_CONFIG_HOME",
                       dir |-> <<".", "c", "a", "c", "h", "e">>]

cache == [var |-> "XDG_CACHE_HOME",
          dir |-> <<".", "c", "a", "c", "h", "e">>]

config == [var |-> "XDG_CONFIG_HOME",
           dir |-> <<".", "c", "o", "n", "f", "i", "g">>]

data == [var |-> "XDG_DATA_HOME",
         dir |-> <<".", "l", "o", "c", "a", "l", "/", "s", "h", "a", "r", "e">>]

state == [var |-> "XDG_STATE_HOME",
          dir |-> <<".", "l", "o", "c", "a", "l", "/", "s", "t", "a", "t", "e">>]

\* variant: an unreadable variable becomes the empty path
runtime_or_default(e) ==
    LET r == env_var(e, "XDG_RUNTIME_DIR")
    IN  IF r.ok THEN Some(PathBuf_from(r.s)) ELSE Some(<< >>)

\* env::var("XDG_RUNTIME_DIR").map(PathBuf::from).ok()
runtime(e) ==
    LET r == env_var(e, "XDG_RUNTIME_DIR")
    IN  IF r.ok THEN Some(PathBuf_from(r.s)) ELSE None

\* pub use home::home_dir as home
home(h) == h

PathOps == {"bin", "cache", "config", "data", "state"}
Ops == PathOps \cup {"home", "runtime"}

Fn(o) ==
    CASE o = "bin" -> bin
      [] o = "cache" -> cache
      [] o = "config" -> config
      [] o = "data" -> data
      [] o = "state" -> state

\* the result of one call of o made alone over environment e and home h
Alone(o, e, h) ==
    CASE o = "home" -> home(h)
      [] o = "runtime" -> runtime(e)
      [] OTHER -> path(Fn(o), e, h)

(***************************************************************************)
(* State.                                                                  *)
(***************************************************************************)
VARIABLES
    env,      \* the process environment
    homeDir,  \* the home directory provider's answer
    pc,       \* per thread: "idle", or "or_else" inside path!'s fallback
    cur,      \* per thread: the function whose call is in progress
    ret       \* per thread: the function and result of its last call

vars == <<env, homeDir, pc, cur, ret>>

NoRet == [op |-> "none", val |-> None]
Ret(o, v) == [op |-> o, val |-> v]

Init ==
    /\ env \in EnvSet
    /\ homeDir \in HomeAnswers
    /\ pc = [t \in Threads |-> "idle"]
    /\ cur = [t \in Threads |-> "none"]
    /\ ret = [t \in Threads |-> NoRet]

(***************************************************************************)
(* Calls.  A call reads the environment variable in one step; path! reads  *)
(* the home directory in a second step, only when the first gave nothing.  *)
(***************************************************************************)
\* variant: the variable is removed from the environment once read
Invoke_take(t, o) ==
    /\ pc[t] = "idle"
    /\ LET first == path_next(env, Fn(o).var)
       IN  IF first.some
           THEN /\ ret' = [ret EXCEPT ![t] = Ret(o, first)]
                /\ UNCHANGED <<pc, cur>>
           ELSE /\ pc' = [pc EXCEPT ![t] = "or_else"]
                /\ cur' = [cur EXCEPT ![t] = o]
                /\ ret' = [ret EXCEPT ![t] = NoRet]
    /\ env' = [env EXCEPT ![Fn(o).var] = Unset]
    /\ UNCHANGED homeDir

\* path!: the first half, up to .next()
Invoke(t, o) ==
    /\ pc[t] = "idle"
    /\ LET first == path_next(env, Fn(o).var)
       IN  IF first.some
           THEN /\ ret' = [ret EXCEPT ![t] = Ret(o, first)]
                /\ UNCHANGED <<pc, cur>>
           ELSE /\ pc' = [pc EXCEPT ![t] = "or_else"]
                /\ cur' = [cur EXCEPT ![t] = o]
                /\ ret' = [ret EXCEPT ![t] = NoRet]
    /\ UNCHANGED <<env, homeDir>>

\* variant: the fallback is stored in the variable for later calls
OrElse_cached(t) ==
    /\ pc[t] = "or_else"
    /\ LET r == or_else(home(homeDir), Fn(cur[t]).dir)
       IN  /\ ret' = [ret EXCEPT ![t] = Ret(cur[t], r)]
           /\ env' = [env EXCEPT ![Fn(cur[t]).var] =
                         IF r.some THEN Present(r.path) ELSE @]
    /\ pc' = [pc EXCEPT ![t] = "idle"]
    /\ cur' = [cur EXCEPT ![t] = "none"]
    /\ UNCHANGED homeDir

\* path!: the or_else closure
OrElse(t) ==
    /\ pc[t] = "or_else"
    /\ ret' = [ret EXCEPT ![t] = Ret(cur[t], or_else(home(homeDir), Fn(cur[t]).dir))]
    /\ pc' = [pc EXCEPT ![t] = "idle"]
    /\ cur' = [cur EXCEPT ![t] = "none"]
    /\ UNCHANGED <<env, homeDir>>

Bin(t) == Invoke(t, "bin")

Cache(t) == Invoke(t, "cache")

Config(t) == Invoke(t, "config")

Data(t) == Invoke(t, "data")

State(t) == Invoke(t, "state")

Runtime(t) ==
    /\ pc[t] = "idle"
    /\ ret' = [ret EXCEPT ![t] = Ret("runtime", runtime(env))]
    /\ UNCHANGED <<env, homeDir, pc, cur>>

Home(t) ==
    /\ pc[t] = "idle"
    /\ ret' = [ret EXCEPT ![t] = Ret("home", home(homeDir))]
    /\ UNCHANGED <<env, homeDir, pc, cur>>

Next ==
    \E t \in Threads :
        \/ Home(t)
        \/ Bin(t)
        \/ Cache(t)
        \/ Config(t)
        \/ Data(t)
        \/ State(t)
        \/ Runtime(t)
        \/ OrElse(t)

Spec == Init /\ [][Next]_vars

\* calls made by one thread only
NextSolo ==
    \E t \in {"t1"} :
        \/ Home(t)
        \/ Bin(t)
        \/ Cache(t)
        \/ Config(t)
        \/ Data(t)
        \/ State(t)
        \/ Runtime(t)
        \/ OrElse(t)

SpecSolo == Init /\ [][NextSolo]_vars

\* every thread that is inside a call is scheduled again
FairSpec == Spec /\ \A t \in Threads : WF_vars(OrElse(t))

TypeOK ==
    /\ env \in EnvSet
    /\ homeDir \in HomeAnswers
    /\ pc \in [Threads -> {"idle", "or_else"}]
    /\ cur \in [Threads -> PathOps \cup {"none"}]
    /\ \A t \in Threads : ret[t].op \in Ops \cup {"none"}


(***************************************************************************)
(* What the specification says of each function, written independently of  *)
(* the definitions above.                                                  *)
(***************************************************************************)
\* the environment variable designated for a function
Designated(o) ==
    CASE o = "bin" -> "XDG_BIN_HOME"
      [] o = "cache" -> "XDG_CACHE_HOME"
      [] o = "config" -> "XDG_CONFIG_HOME"
      [] o = "data" -> "XDG_DATA_HOME"
      [] o = "state" -> "XDG_STATE_HOME"
      [] o = "runtime" -> "XDG_RUNTIME_DIR"

\* the fixed fallback subpath of a function
Subpath(o) ==
    CASE o = "bin" -> <<".", "l", "o", "c", "a", "l", "/", "b", "i", "n">>
      [] o = "cache" -> <<".", "c", "a", "c", "h", "e">>
      [] o = "config" -> <<".", "c", "o", "n", "f", "i", "g">>
      [] o = "data" -> <<".", "l", "o", "c", "a", "l", "/", "s", "h", "a", "r", "e">>
      [] o = "state" -> <<".", "l", "o", "c", "a", "l", "/", "s", "t", "a", "t", "e">>

\* H joined with a relative subpath: one separator between the two
Joined(H, sub) ==
    IF Len(H) > 0 /\ H[Len(H)] = "/" THEN H \o sub ELSE H \o <<"/">> \o sub

\* the home-relative fallback of a function under the current home answer
Fallback(o) ==
    IF homeDir.some THEN Some(Joined(homeDir.path, Subpath(o))) ELSE None

IsUnicode(v) == v.set /\ \A i \in 1..Len(v.bytes) : v.bytes[i] # BadByte
IsNotUnicode(v) == v.set /\ \E i \in 1..Len(v.bytes) : v.bytes[i] = BadByte
Returned(t, o) == ret[t].op = o

(***************************************************************************)
(* C1: for cache, config, bin, data and state, when the designated         *)
(* variable is set to a non-empty string S the call returns a present path *)
(* equal to S exactly, whitespace-only S included, whether or not the home *)
(* directory resolves.                                                     *)
(***************************************************************************)
C1_OverrideUsedVerbatim ==
    \A t \in Threads : \A o \in PathOps :
        (Returned(t, o) /\ IsUnicode(env[Designated(o)])
            /\ env[Designated(o)].bytes # << >>)
        => ret[t].val = Some(env[Designated(o)].bytes)

C1_Witness ==
    \E t \in Threads :
        /\ Returned(t, "cache")
        /\ env["XDG_CACHE_HOME"] = Present(<<" ">>)
        /\ homeDir = None
        /\ ret[t].val = Some(<<" ">>)

(***************************************************************************)
(* C2: runtime() returns an absent result when XDG_RUNTIME_DIR is set to   *)
(* the empty string, as it does when the variable is unset.                *)
(***************************************************************************)
C2_RuntimeEmptyIsAbsent ==
    \A t \in Threads :
        (Returned(t, "runtime") /\ env["XDG_RUNTIME_DIR"] = Present(<< >>))
        => ret[t].val = None

(***************************************************************************)
(* C3: for cache, config, bin, data and state, when the designated         *)
(* variable is unset and the home directory resolves to H, the call        *)
(* returns a present path equal to H joined with the function's subpath.   *)
(***************************************************************************)
C3_FallbackIsHomeJoined ==
    \A t \in Threads : \A o \in PathOps :
        (Returned(t, o) /\ ~env[Designated(o)].set /\ homeDir.some)
        => ret[t].val = Some(Joined(homeDir.path, Subpath(o)))

C3_Witness ==
    \E t \in Threads :
        /\ Returned(t, "data")
        /\ ~env["XDG_DATA_HOME"].set
        /\ homeDir = Some(<<"/", "h">>)
        /\ ret[t].val.some
        /\ Len(ret[t].val.path) = 15

(***************************************************************************)
(* C4: for cache, config, bin, data and state and every home answer, the   *)
(* result with the designated variable set to the empty string is the      *)
(* result with that variable unset: the home-relative fallback, never an   *)
(* empty path.                                                             *)
(***************************************************************************)
C4_EmptyIsUnset ==
    \A t \in Threads : \A o \in PathOps :
        (Returned(t, o) /\ env[Designated(o)] = Present(<< >>))
        => /\ ret[t].val = Alone(o, [env EXCEPT ![Designated(o)] = Unset], homeDir)
           /\ ret[t].val = Fallback(o)
           /\ ret[t].val # Some(<< >>)

C4_Witness ==
    \E t \in Threads :
        /\ Returned(t, "config")
        /\ env["XDG_CONFIG_HOME"] = Present(<< >>)
        /\ homeDir = Some(<<"/", "h">>)
        /\ ret[t].val.some

(***************************************************************************)
(* C5: for cache, config, bin, data and state, when the designated         *)
(* variable is unset and the home directory is unresolvable, the call      *)
(* returns an absent result.                                               *)
(***************************************************************************)
C5_NoHomeNoPath ==
    \A t \in Threads : \A o \in PathOps :
        (Returned(t, o) /\ ~env[Designated(o)].set /\ ~homeDir.some)
        => ret[t].val = None

C5_Witness ==
    \E t \in Threads :
        /\ Returned(t, "state")
        /\ ~env["XDG_STATE_HOME"].set
        /\ homeDir = None
        /\ ~ret[t].val.some

(***************************************************************************)
(* C6: runtime() returns a present path equal to the value of              *)
(* XDG_RUNTIME_DIR when that value is non-empty and absent when the        *)
(* variable is unset, whatever the home answer; a present result is never  *)
(* anything but the variable's value (no home-relative fallback).          *)
(***************************************************************************)
C6_RuntimeMirrorsVariable ==
    \A t \in Threads :
        Returned(t, "runtime")
        => LET v == env["XDG_RUNTIME_DIR"]
           IN  /\ (IsUnicode(v) /\ v.bytes # << >>) => ret[t].val = Some(v.bytes)
               /\ ~v.set => ret[t].val = None
               /\ ret[t].val.some => (IsUnicode(v) /\ ret[t].val.path = v.bytes)

C6_Witness ==
    \E t, u \in Threads :
        /\ Returned(t, "runtime")
        /\ ~env["XDG_RUNTIME_DIR"].set
        /\ ~ret[t].val.some
        /\ Returned(u, "home")
        /\ ret[u].val.some

(***************************************************************************)
(* C7: repeated calls of one function over an unchanged environment and    *)
(* home answer return the same result every time: any two completed calls  *)
(* of the same function hold equal results, and a thread that repeats its  *)
(* last call gets the result it had.                                       *)
(***************************************************************************)
C7_Idempotent ==
    /\ [](\A t, u \in Threads :
            (ret[t].op # "none" /\ ret[t].op = ret[u].op) => ret[t].val = ret[u].val)
    /\ [][\A t \in Threads :
            (ret[t].op # "none" /\ ret'[t].op = ret[t].op) => ret'[t].val = ret[t].val]_vars

C7_Witness ==
    \E t, u \in Threads :
        /\ t # u
        /\ Returned(t, "cache")
        /\ Returned(u, "cache")
        /\ ret[t].val.some
        /\ env["XDG_CACHE_HOME"].set

(***************************************************************************)
(* C8: each function's result depends only on its own inputs: the          *)
(* designated variable and the home answer for cache, config, bin, data    *)
(* and state, XDG_RUNTIME_DIR for runtime, the home answer for home.  Any  *)
(* environment that agrees on those inputs and differs in one other        *)
(* variable or in an unused home answer gives the same result; every       *)
(* environment is an initial state, so environments that differ in several *)
(* variables are covered one variable at a time.                           *)
(***************************************************************************)
Agrees(o, e2, h2) ==
    CASE o = "home" -> h2 = homeDir
      [] o = "runtime" -> e2["XDG_RUNTIME_DIR"] = env["XDG_RUNTIME_DIR"]
      [] OTHER -> e2[Designated(o)] = env[Designated(o)] /\ h2 = homeDir

C8_Independent ==
    \A t \in Threads :
        ret[t].op # "none"
        => \A v \in VarNames : \A x \in EnvValues : \A h2 \in HomeAnswers :
              LET e2 == [env EXCEPT ![v] = x]
              IN  Agrees(ret[t].op, e2, h2) => Alone(ret[t].op, e2, h2) = ret[t].val

C8_Witness ==
    \E t \in Threads :
        /\ Returned(t, "cache")
        /\ ~env["XDG_CACHE_HOME"].set
        /\ env["XDG_CONFIG_HOME"] = Present(<<"/", "t">>)
        /\ ret[t].val = Some(<<"/", "h", "/", ".", "c", "a", "c", "h", "e">>)

(***************************************************************************)
(* C9: in every interleaving of calls from several threads over an         *)
(* unchanged environment, each call returns the result it would return if  *)
(* run alone, no step writes the environment or the home answer, a step    *)
(* changes the state of one thread only, and every call terminates.        *)
(***************************************************************************)
C9_ConcurrentSafe ==
    /\ [](\A t \in Threads :
            ret[t].op # "none" => ret[t].val = Alone(ret[t].op, env, homeDir))
    /\ [][/\ env' = env
          /\ homeDir' = homeDir
          /\ \E t \in Threads : \A u \in Threads \ {t} :
                pc'[u] = pc[u] /\ cur'[u] = cur[u] /\ ret'[u] = ret[u]]_vars
    /\ \A t \in Threads : (pc[t] = "or_else") ~> (pc[t] = "idle")

C9_Witness ==
    \E t, u \in Threads :
        /\ t # u
        /\ pc[t] = "or_else"
        /\ cur[t] = "bin"
        /\ Returned(u, "data")
        /\ ret[u].val.some
        /\ ~env["XDG_DATA_HOME"].set

(***************************************************************************)
(* C10: a designated variable whose value is not valid Unicode is treated  *)
(* as unset: cache, config, bin, data and state return the home-relative   *)
(* fallback, or absent when home is unresolvable, and runtime returns      *)
(* absent.                                                                 *)
(***************************************************************************)
C10_NotUnicodeIsUnset ==
    \A t \in Threads :
        /\ \A o \in PathOps :
              (Returned(t, o) /\ IsNotUnicode(env[Designated(o)]))
              => ret[t].val = Fallback(o)
        /\ (Returned(t, "runtime") /\ IsNotUnicode(env["XDG_RUNTIME_DIR"]))
              => ret[t].val = None

C10_Witness ==
    \E t \in Threads :
        /\ Returned(t, "bin")
        /\ IsNotUnicode(env["XDG_BIN_HOME"])
        /\ homeDir = Some(<<"/", "h">>)
        /\ ret[t].val = Some(<<"/", "h", "/", ".", "l", "o", "c", "a", "l", "/", "b", "i", "n">>)

=============================================================================
